---- MODULE Spec2Model ----
(***************************************************************************)
(* Sweep controller of the Keithley SMU control programs.                  *)
(*                                                                         *)
(*   src/MPPT.py   MPPTSweepApp : voltage sweep with simulation mode, MPP  *)
(*                 extraction and an event pump (QApplication              *)
(*                 .processEvents) called once per point                   *)
(*   src/sweep.py  SweepApp     : the plain I-V sweep (no event pump)      *)
(*                                                                         *)
(* Both programs are single threaded Qt applications.  A handler runs to   *)
(* completion unless it calls the event pump; MPPT.py calls it at line 589 *)
(* inside the per point try block, and every handler connected to a button *)
(* can run there, start_sweep included (no button is ever disabled).       *)
(* The active voltage_sweep calls therefore form a call stack, `stack`.    *)
(*                                                                         *)
(* The text fields and the instrument's responses hold whole numbers.  A    *)
(* setpoint, a stored voltage and a stored power are integers counting     *)
(* 1/Grid of the unit (Grid == 2: 5 is 2.5 V), so that the interior points *)
(* of np.linspace are exact; currents are integers in the unit itself.     *)
(***************************************************************************)
EXTENDS Integers, Sequences, FiniteSets, TLC

\* ------------------------------------------------------------------ bounds
MaxPoints == 2
MaxDepth == 2
MaxStackPoints == 3
MaxPumpEvents == 2
MaxLoaded == 1
MaxHandles == 2

\* --------------------------------------------------------------- input sets
Starts == {0}
Stops == {4}
PointCounts == -1 .. MaxPoints
MeasV == {4}
MeasI == {-2, 1}
SimRaw == {-1, 3}
CompTexts == {"", "0.5"}

VARIABLES
  app,              \* "MPPT" (src/MPPT.py) or "Sweep" (src/sweep.py)
  simulation_mode,  \* self.simulation_mode
  keithley,         \* self.keithley: "None", "open" (a live resource), "closed"
  abort_sweep,      \* self.abort_sweep
  voltages,         \* self.voltages
  currents,         \* self.currents
  powers,           \* self.powers
  stack,            \* active voltage_sweep calls, innermost last
  output,           \* the instrument's source output is enabled
  handles,          \* number of VISA sessions opened and not closed
  window,           \* "open", or "closed" once closeEvent has accepted
  pumped,           \* handlers run by processEvents() since the loop was idle
  done              \* what the start request that has just returned did and
                    \* reported (NoRun after any other step)

vars == <<app, simulation_mode, keithley, abort_sweep, voltages, currents,
          powers, stack, output, handles, window, pumped, done>>

\* ------------------------------------------------------------------ helpers
Cmd(c, a) == [c |-> c, a |-> a]

Top == stack[Len(stack)]

SetTop(f) == [stack EXCEPT ![Len(stack)] = f]

Pop == SubSeq(stack, 1, Len(stack) - 1)

Prefix(s, n) == SubSeq(s, 1, n)

IsPrefix(s, t) == Len(s) <= Len(t) /\ SubSeq(t, 1, Len(s)) = s

Has(log, c) == \E i \in 1 .. Len(log) : log[i].c = c

Count(log, c) == Cardinality({i \in 1 .. Len(log) : log[i].c = c})

\* The instrument's output after it has executed `log`, starting from `out`.
RECURSIVE OutputAfter(_, _)
OutputAfter(out, log) ==
  IF log = <<>> THEN out
  ELSE OutputAfter(IF Head(log).c = "OUTP ON" THEN TRUE
                   ELSE IF Head(log).c \in {"OUTP OFF", "*RST"} THEN FALSE
                   ELSE out, Tail(log))

\* The event loop can run a handler: no sweep is active, or the innermost
\* sweep is inside QApplication.processEvents().
CanDispatch ==
  IF stack = <<>> THEN TRUE ELSE Top.pc = "pump" /\ pumped < MaxPumpEvents

\* A handler run by the event loop: counted when processEvents() ran it.
Dispatched == pumped' = IF stack = <<>> THEN 0 ELSE pumped + 1

\* The grid: every num - 1 of a sweep of up to MaxStackPoints points divides
\* it, so start + i * (stop - start) / (num - 1) is a whole number of 1/Grid.
RECURSIVE Factorial(_)
Factorial(n) == IF n <= 1 THEN 1 ELSE n * Factorial(n - 1)

Grid == Factorial(MaxStackPoints - 1)

\* A linspace that leaves the endpoint out (endpoint=False).
linspace_open(start, stop, num) ==
  [i \in 1 .. num |-> Grid * start + ((i - 1) * Grid * (stop - start)) \div num]

\* np.linspace(start, stop, num) for num >= 0 (num < 0 raises ValueError),
\* start and stop in the unit, the result in 1/Grid of it:
\* linspace(0, 5, 3) = <<0, 5, 10>> is [0, 2.5, 5].
linspace(start, stop, num) ==
  [i \in 1 .. num |->
     IF num = 1 THEN Grid * start
     ELSE Grid * start + ((i - 1) * Grid * (stop - start)) \div (num - 1)]

\* A simulated cell whose current is not clamped at zero.
simulate_unclamped(voltage, stop, raw) ==
  IF 10 * voltage >= 8 * Grid * stop THEN 0 ELSE raw

\* The simulated solar cell: voc = 0.8 * stop; raw is isc*(1-exp(..))+noise.
\* voltage is a setpoint (1/Grid of the unit), stop the text field.
simulate(voltage, stop, raw) ==
  IF 10 * voltage >= 8 * Grid * stop THEN 0
  ELSE IF raw < 0 THEN 0 ELSE raw

\* An argmax that returns the last index of the maximum.
argmax_last(p) ==
  CHOOSE i \in 1 .. Len(p) :
    /\ \A j \in 1 .. Len(p) : p[j] <= p[i]
    /\ \A j \in (i + 1) .. Len(p) : p[j] < p[i]

\* np.argmax: the first index of the maximum.
argmax(p) ==
  CHOOSE i \in 1 .. Len(p) :
    /\ \A j \in 1 .. Len(p) : p[j] <= p[i]
    /\ \A j \in 1 .. (i - 1) : p[j] < p[i]

NoMpp == <<>>

\* What a start request that has just returned did and reported.
\*   kind     how the handler ended: "Returned" (voltage_sweep returned),
\*            "NotInitialized", "InputError", "SetupError", "SweepError" (the
\*            dialogs of start_sweep), "Unhandled" (sweep.py: the exception
\*            left the handler)
\*   stage    where it ended: "guard", "input", "setup", "linspace", "point",
\*            "end" (the code after the loop)
\*   aborted  the "Sweep Aborted" dialog was shown
\*   nodata   the "No valid data points" warning was shown
\*   mpp      the MPP logged by find_mppt_point, or NoMpp
\*   k        index of the setpoint the loop stopped at (points + 1: exhausted)
\*   log      the commands the instrument accepted from this request
\*   taken, bad, fail   samples appended, unparseable responses, link failures
\*   len      Len(voltages) when the handler ended
\*   ev       handlers run by processEvents() since the loop was idle
\*   cancel_at  index of the setpoint pending at the first abort request
\*   notified live plot updates made for appended samples
\*   connect  for initialize_keithley: "ok" (Success dialog) or "failed" (error
\*            dialog), with the commands it sent in log
\*   shut_tried   writes attempted by the code after the loop
\*   shut_failed  which of them raised (0: none)
NoRun ==
  [kind |-> "none", stage |-> "none", depth |-> 0, hw |-> FALSE, points |-> 0,
   k |-> 0, aborted |-> FALSE, nodata |-> FALSE, mpp |-> NoMpp, log |-> <<>>,
   taken |-> 0, bad |-> 0, fail |-> 0, len |-> 0, ev |-> 0, cancel_at |-> 0,
   notified |-> 0, connect |-> "none", shut_tried |-> 0, shut_failed |-> 0]

\* A request that ended before the loop.
Report(kind, stage, hw, cfg, log) ==
  [NoRun EXCEPT !.kind = kind, !.stage = stage, !.depth = Len(stack) + 1,
                !.hw = hw, !.points = cfg.points, !.log = log,
                !.len = Len(voltages), !.ev = pumped]

\* A request that ended in or after the loop of the innermost sweep.
EndReport(kind, stage, log) ==
  [NoRun EXCEPT !.kind = kind, !.stage = stage, !.depth = Len(stack),
                !.hw = Top.hw, !.points = Top.points, !.k = Top.k,
                !.aborted = Top.aborted, !.log = log, !.taken = Top.taken,
                !.bad = Top.bad, !.fail = Top.fail, !.len = Len(voltages),
                !.ev = pumped, !.cancel_at = Top.cancel_at,
                !.notified = Top.notified]

\* The frame of a voltage_sweep / IVsweep call that has reached its loop.
\* delay_ok: time.sleep accepts the delay; hw_pts: the points so far whose
\* body took the instrument branch.
NewFrame(cfg, hw, setcmd, log) ==
  [vals |-> linspace(cfg.start, cfg.stop, cfg.points),
   start |-> cfg.start, stop |-> cfg.stop,
   k |-> 1, pc |-> "check", hw |-> hw, points |-> cfg.points,
   setcmd |-> setcmd, aborted |-> FALSE, log |-> log, taken |-> 0,
   bad |-> 0, fail |-> 0, cancel_at |-> 0, notified |-> 0,
   delay_ok |-> cfg.delay_ok, hw_pts |-> 0]

\* The setpoints of the active sweeps, counted to bound the model.
RECURSIVE StackPoints(_)
StackPoints(st) ==
  IF st = <<>> THEN 0 ELSE Len(Head(st).vals) + StackPoints(Tail(st))

\* ------------------------------------------------- the instrument link
\* A write or query raises when the session is closed (InvalidSession), when
\* self.keithley is None (AttributeError), or when the link fails.  failAt = 0:
\* every command of the list succeeds; failAt = n: the n-th raises.  On an open
\* session the link is taken to fail at the first or at the last command.
FailChoices(cmds) == IF keithley = "open" THEN {0, 1, Len(cmds)} ELSE {1}

Written(cmds, failAt) == IF failAt = 0 THEN cmds ELSE Prefix(cmds, failAt - 1)

\* What the instrument link does for one point: the setpoint write raises
\* ("wfail"), the wait or the read query after it raises ("qfail"), the
\* response has fewer than two comma separated fields ("short"), a field is
\* not a number ("nan"), or the response is "v,i".
Responses ==
  [k : {"wfail", "qfail", "short", "nan"}, v : {0}, i : {0}]
  \cup [k : {"ok"}, v : MeasV, i : MeasI]

\* ------------------------------------------------------- MPPT.py: setupIV
\* The commands setupIV writes, in order (":SYST:RSEN ON" or "OFF" as the
\* 4-wire checkbox says; the model does not keep which).
setupIV_cmds(cfg) ==
  <<Cmd("SOUR:FUNC VOLT", 0), Cmd("SENS:FUNC CURR", 0),
    Cmd("SYST:RSEN", 0), Cmd("ROUT:TERM FRONT", 0)>>
  \o (IF cfg.max_current # "" THEN <<Cmd("SENS:CURR:PROT", 0)>> ELSE <<>>)
  \o <<Cmd("OUTP ON", 0), Cmd("SOUR:VOLT", 0)>>

\* A setupIV that reports success whatever the instrument link did.
setupIV_unchecked(cfg, failAt) ==
  IF simulation_mode THEN [ok |-> TRUE, log |-> <<>>]
  ELSE [ok |-> TRUE, log |-> Written(setupIV_cmds(cfg), failAt)]

\* setupIV: True in simulation mode without a command; otherwise True when
\* every write succeeded, False (after a Setup Error dialog) when one raised.
setupIV(cfg, failAt) ==
  IF simulation_mode THEN [ok |-> TRUE, log |-> <<>>]
  ELSE [ok |-> failAt = 0, log |-> Written(setupIV_cmds(cfg), failAt)]

\* The text fields read by start_sweep and setupIV.  valid = FALSE: a field
\* that float() or int() rejects.  delay_ok = FALSE: a delay that float()
\* accepts and time.sleep rejects (negative, nan, inf).
Configs ==
  {c \in [start : Starts, stop : Stops, points : PointCounts, valid : BOOLEAN,
          max_current : CompTexts, delay_ok : BOOLEAN] :
     /\ c.valid \/ (c.points = 0 /\ c.max_current = "" /\ c.delay_ok)
     /\ c.delay_ok \/ (c.points = MaxPoints /\ c.max_current = "0.5")}

\* --------------------------------------------------- MPPT.py: start_sweep
\* The handler up to the first iteration of the loop of voltage_sweep.
start_sweep(cfg, failAt) ==
  /\ app = "MPPT" /\ window = "open"
  /\ CanDispatch /\ Len(stack) < MaxDepth
  /\ Dispatched
  /\ IF keithley = "None" /\ ~simulation_mode
     THEN \* "Please initialize the Keithley first."
          /\ failAt = 0
          /\ done' = Report("NotInitialized", "guard", TRUE, cfg, <<>>)
          /\ UNCHANGED <<abort_sweep, voltages, currents, powers, stack, output>>
     ELSE /\ abort_sweep' = FALSE
          /\ IF ~cfg.valid
             THEN \* float() or int() raised ValueError: "Input Error"
                  /\ failAt = 0
                  /\ done' = Report("InputError", "input", ~simulation_mode, cfg, <<>>)
                  /\ UNCHANGED <<voltages, currents, powers, stack, output>>
             ELSE LET s == setupIV(cfg, failAt) IN
                  /\ failAt \in (IF simulation_mode THEN {0}
                                 ELSE FailChoices(setupIV_cmds(cfg)))
                  /\ output' = OutputAfter(output, s.log)
                  /\ IF ~(simulation_mode \/ s.ok)
                     THEN /\ done' = Report("SetupError", "setup", TRUE, cfg, s.log)
                          /\ UNCHANGED <<voltages, currents, powers, stack>>
                     ELSE IF cfg.points < 0
                     THEN \* np.linspace raised ValueError: "Input Error"
                          /\ done' = Report("InputError", "linspace",
                                            ~simulation_mode, cfg, s.log)
                          /\ UNCHANGED <<voltages, currents, powers, stack>>
                     ELSE /\ StackPoints(stack) + cfg.points <= MaxStackPoints
                          /\ voltages' = <<>>
                          /\ currents' = <<>>
                          /\ powers' = <<>>
                          /\ stack' = Append(stack,
                               NewFrame(cfg, ~simulation_mode, "SOUR:VOLT", s.log))
                          /\ done' = NoRun
  /\ UNCHANGED <<app, simulation_mode, keithley, handles, window>>

\* ----------------------------------------------- MPPT.py: abort_sweep_func
\* The request is noted in every active sweep that has not seen one yet.
NoteCancel(st) ==
  [n \in 1 .. Len(st) |->
     IF st[n].cancel_at = 0 THEN [st[n] EXCEPT !.cancel_at = st[n].k] ELSE st[n]]

abort_sweep_func ==
  /\ app = "MPPT" /\ window = "open"
  /\ CanDispatch
  /\ Dispatched
  /\ abort_sweep' = TRUE
  /\ stack' = NoteCancel(stack)
  /\ UNCHANGED <<app, simulation_mode, keithley, voltages, currents, powers,
                 output, handles, window>>
  /\ done' = NoRun

\* --------------------------------------------------- MPPT.py: voltage_sweep
\* A loop head that waits at the setpoint while the abort flag is set.
loop_head_waiting(f, abort) ==
  IF f.k > Len(f.vals) THEN [f EXCEPT !.pc = "end"]
  ELSE IF abort THEN f
  ELSE [f EXCEPT !.pc = "pump"]

\* The head of the for loop: the sequence is exhausted, or the abort flag is
\* found set (dialog, break), or the body is entered up to processEvents().
loop_head(f, abort) ==
  IF f.k > Len(f.vals) THEN [f EXCEPT !.pc = "end"]
  ELSE IF abort THEN [f EXCEPT !.pc = "end", !.aborted = TRUE]
  ELSE [f EXCEPT !.pc = "pump"]

loop_check ==
  /\ app = "MPPT"
  /\ stack # <<>> /\ Top.pc = "check"
  /\ stack' = SetTop(loop_head(Top, abort_sweep))
  /\ UNCHANGED <<app, simulation_mode, keithley, abort_sweep, voltages,
                 currents, powers, output, handles, window, pumped>>
  /\ done' = NoRun

\* A parse that keeps the sign of the current as the instrument sent it.
parse_response_as_read(r) ==
  IF r.k = "ok" THEN [ok |-> TRUE, v |-> Grid * r.v, i |-> r.i]
  ELSE [ok |-> FALSE, v |-> 0, i |-> 0]

\* The parse of the response to ":READ?" (MPPT.py 622-629): the measured
\* voltage and the inverted current, or ValueError.
parse_response(r) ==
  IF r.k = "ok" THEN [ok |-> TRUE, v |-> Grid * r.v, i |-> r.i * (-1)]
  ELSE [ok |-> FALSE, v |-> 0, i |-> 0]

\* update_live_plot is called for an appended sample when idx % 3 == 0 or at
\* the last setpoint (MPPT.py 640-641); idx = k - 1.
plot_due(f) == (f.k - 1) % 3 = 0 \/ f.k = Len(f.vals)

\* The rest of the loop body after processEvents() returned: one point.
take_point(r, raw) ==
  /\ app = "MPPT"
  /\ stack # <<>> /\ Top.pc = "pump"
  /\ LET voltage == Top.vals[Top.k]
         next == [Top EXCEPT !.k = @ + 1, !.pc = "check"]
         m == parse_response(r)
     IN IF simulation_mode
        THEN LET current == simulate(voltage, Top.stop, raw) IN
             /\ r = [k |-> "ok", v |-> 4, i |-> 1]
             /\ raw \in SimRaw
             /\ IF Top.delay_ok
                THEN /\ voltages' = Append(voltages, voltage)
                     /\ currents' = Append(currents, current)
                     /\ powers' = Append(powers, voltage * current)
                     /\ stack' = SetTop([next EXCEPT
                          !.taken = @ + 1,
                          !.notified = IF plot_due(Top) THEN @ + 1 ELSE @])
                ELSE \* time.sleep(delay / 10) raised: caught, next point
                     /\ stack' = SetTop([next EXCEPT !.fail = @ + 1])
                     /\ UNCHANGED <<voltages, currents, powers>>
        ELSE /\ raw = 0
             /\ (keithley # "open") => (r.k = "wfail")
             /\ ~Top.delay_ok => r.k \in {"wfail", "qfail"}
             /\ IF r.k \in {"wfail", "qfail"}
                THEN \* the write, the wait or the query raised: caught, next
                     \* point ("qfail": the setpoint was written)
                     /\ stack' = SetTop([next EXCEPT
                          !.fail = @ + 1, !.hw_pts = @ + 1,
                          !.log = @ \o (IF r.k = "wfail" THEN <<>>
                                        ELSE <<Cmd("SOUR:VOLT", voltage)>>)])
                     /\ UNCHANGED <<voltages, currents, powers>>
                ELSE IF m.ok
                THEN /\ voltages' = Append(voltages, m.v)
                     /\ currents' = Append(currents, m.i)
                     /\ powers' = Append(powers, m.v * m.i)
                     /\ stack' = SetTop([next EXCEPT
                          !.taken = @ + 1, !.hw_pts = @ + 1,
                          !.notified = IF plot_due(Top) THEN @ + 1 ELSE @,
                          !.log = @ \o <<Cmd("SOUR:VOLT", voltage), Cmd("READ?", 0)>>])
                ELSE \* ValueError: caught, next point
                     /\ stack' = SetTop([next EXCEPT
                          !.bad = @ + 1, !.hw_pts = @ + 1,
                          !.log = @ \o <<Cmd("SOUR:VOLT", voltage), Cmd("READ?", 0)>>])
                     /\ UNCHANGED <<voltages, currents, powers>>
  /\ UNCHANGED <<app, simulation_mode, keithley, abort_sweep, output, handles,
                 window, pumped>>
  /\ done' = NoRun

\* update_live_plot: returns at once when voltages or currents is empty;
\* otherwise matplotlib's plot raises ValueError when x and y differ in length.
plot_raises ==
  /\ voltages # <<>> /\ currents # <<>>
  /\ (Len(voltages) # Len(currents) \/ Len(voltages) # Len(powers))

\* find_mppt_point: nothing for empty powers; IndexError when the index of the
\* maximum power is not an index of voltages or currents.
mppt_raises ==
  /\ powers # <<>>
  /\ (argmax(powers) > Len(voltages) \/ argmax(powers) > Len(currents))

find_mppt_point ==
  IF powers = <<>> THEN NoMpp
  ELSE <<[v |-> voltages[argmax(powers)], i |-> currents[argmax(powers)],
          p |-> powers[argmax(powers)]]>>

shutdown_cmds == <<Cmd("SOUR:VOLT", 0), Cmd("OUTP OFF", 0)>>

\* The results reported after the loop (MPPT.py 658-665), as the handler ends:
\* the plot or the MPP search may raise into start_sweep's except clauses.
results ==
  IF Len(voltages) > 0
  THEN IF plot_raises THEN [kind |-> "InputError", mpp |-> NoMpp, nodata |-> FALSE]
       ELSE IF mppt_raises THEN [kind |-> "SweepError", mpp |-> NoMpp, nodata |-> FALSE]
       ELSE [kind |-> "Returned", mpp |-> find_mppt_point, nodata |-> FALSE]
  ELSE [kind |-> "Returned", mpp |-> NoMpp, nodata |-> TRUE]

\* The code after the loop (MPPT.py 649-665) and the return into start_sweep.
finish(failAt) ==
  /\ app = "MPPT"
  /\ stack # <<>> /\ Top.pc = "end"
  /\ failAt \in (IF simulation_mode THEN {0} ELSE FailChoices(shutdown_cmds))
  /\ LET shut == IF simulation_mode THEN <<>> ELSE Written(shutdown_cmds, failAt)
     IN /\ output' = OutputAfter(output, shut)
        /\ done' = [EndReport(results.kind, "end", Top.log \o shut) EXCEPT
                      !.mpp = results.mpp, !.nodata = results.nodata,
                      !.shut_tried = IF simulation_mode THEN 0
                                     ELSE IF failAt = 0 THEN Len(shutdown_cmds)
                                     ELSE failAt,
                      !.shut_failed = failAt]
  /\ stack' = Pop
  /\ pumped' = IF Len(stack) = 1 THEN 0 ELSE pumped
  /\ UNCHANGED <<app, simulation_mode, keithley, abort_sweep, voltages,
                 currents, powers, handles, window>>

\* ------------------------------------------ MPPT.py: toggle_simulation_mode
toggle_simulation_mode(closeFails) ==
  /\ app = "MPPT" /\ window = "open"
  /\ CanDispatch
  /\ Dispatched
  /\ simulation_mode' = ~simulation_mode
  /\ IF ~simulation_mode /\ keithley # "None" /\ ~closeFails
     THEN /\ keithley' = "None"
          /\ handles' = IF keithley = "open" THEN handles - 1 ELSE handles
     ELSE /\ closeFails = FALSE \/ (~simulation_mode /\ keithley # "None")
          /\ UNCHANGED <<keithley, handles>>
  /\ UNCHANGED <<app, abort_sweep, voltages, currents, powers, stack, output,
                 window>>
  /\ done' = NoRun

\* -------------------------------------------- MPPT.py: test_gpib_connection
\* The handler opens a session of its own on the instrument's address, asks
\* "*IDN?" and closes it; self.keithley is not touched.  oc = "closed": the
\* handler returned with no session of its own left open (simulation mode, no
\* address, open_resource raised, or the session was opened and closed, by
\* close() or, when setting the timeout raised, by the finalizer of `inst`);
\* oc = "left_open": close() (365) raised and the session stays open.
TestOutcomes == {"closed", "left_open"}

test_gpib_connection(oc) ==
  /\ app = "MPPT" /\ window = "open"
  /\ CanDispatch
  /\ Dispatched
  /\ IF oc = "left_open"
     THEN /\ ~simulation_mode
          /\ handles < MaxHandles
          /\ handles' = handles + 1
     ELSE UNCHANGED handles
  /\ UNCHANGED <<app, simulation_mode, keithley, abort_sweep, voltages,
                 currents, powers, stack, output, window>>
  /\ done' = NoRun

\* --------------------------------------------- MPPT.py: initialize_keithley
\* oc: "ok", or the step that raised: "open", "rst" (the *RST write), "idn".
\* Once open_resource has returned, self.keithley is rebound (440): a session
\* it referred to is dropped, and the finalizer of its Resource object closes
\* it, so that as many sessions are open after the handler as before.
\* closeFails: that close() raised (the finalizer swallows it) and the dropped
\* session stays open.
InitOutcomes == {"ok", "open", "rst", "idn"}

initialize_keithley(oc, closeFails) ==
  /\ app = "MPPT" /\ window = "open"
  /\ CanDispatch
  /\ Dispatched
  /\ IF simulation_mode \/ oc = "open"
     THEN /\ oc \in {"ok", "open"}
          /\ simulation_mode => oc = "ok"
          /\ ~closeFails
          /\ UNCHANGED <<keithley, handles, output>>
     ELSE /\ closeFails => keithley = "open"
          /\ (keithley = "open" /\ ~closeFails) \/ handles < MaxHandles
          /\ keithley' = "open"
          /\ handles' = IF keithley = "open" /\ ~closeFails THEN handles
                         ELSE handles + 1
          /\ output' = IF oc = "rst" THEN output ELSE FALSE
  /\ UNCHANGED <<app, simulation_mode, abort_sweep, voltages, currents, powers,
                 stack, window>>
  /\ done' = IF simulation_mode THEN NoRun
              ELSE [NoRun EXCEPT
                      !.connect = IF oc = "ok" THEN "ok" ELSE "failed",
                      !.hw = TRUE,
                      !.log = IF oc \in {"open", "rst"} THEN <<>>
                              ELSE IF oc = "idn" THEN <<Cmd("*RST", 0)>>
                              ELSE <<Cmd("*RST", 0), Cmd("*IDN?", 0)>>]

\* ---------------------------------------------- MPPT.py: load_data_from_csv
\* A CSV file: its rows and the columns it has besides 'Voltage (V)'.  Row n
\* holds the voltage 4 * (n % 2), the current 1 and the power n + 2.
Row(n) == [v |-> Grid * 4 * (n % 2), i |-> 1, p |-> Grid * (n + 2)]

Rows(n) == [j \in 1 .. n |-> Row(j)]

Csvs == [rows : {Rows(n) : n \in 1 .. MaxLoaded}, has_v : {TRUE},
         has_i : BOOLEAN, has_p : BOOLEAN]

Column(csv, f) == [j \in 1 .. Len(csv.rows) |-> csv.rows[j][f]]

load_data_from_csv(csv) ==
  /\ app = "MPPT" /\ window = "open"
  /\ CanDispatch
  /\ Dispatched
  /\ voltages' = IF csv.has_v THEN Column(csv, "v") ELSE voltages
  /\ currents' = IF csv.has_v /\ csv.has_i THEN Column(csv, "i") ELSE currents
  /\ powers' = IF csv.has_v /\ csv.has_i /\ csv.has_p THEN Column(csv, "p")
               ELSE powers
  /\ UNCHANGED <<app, simulation_mode, keithley, abort_sweep, stack, output,
                 handles, window>>
  /\ done' = NoRun

\* ------------------------------------------------------ MPPT.py: closeEvent
\* failAt = 1: the ":OUTP OFF" write raised; failAt = 2: close() raised after
\* the write was accepted.  Both are caught, the window closes.
closeEvent(failAt) ==
  /\ app = "MPPT" /\ window = "open"
  /\ CanDispatch
  /\ Dispatched
  /\ window' = "closed"
  /\ IF keithley = "None"
     THEN failAt = 0 /\ UNCHANGED <<keithley, handles, output>>
     ELSE /\ failAt \in (IF keithley = "open" THEN {0, 1, 2} ELSE {1})
          /\ IF failAt = 0
             THEN /\ output' = FALSE
                  /\ keithley' = "closed"
                  /\ handles' = handles - 1
             ELSE IF failAt = 2
             THEN /\ output' = FALSE
                  /\ UNCHANGED <<keithley, handles>>
             ELSE UNCHANGED <<keithley, handles, output>>
  /\ UNCHANGED <<app, simulation_mode, abort_sweep, voltages, currents, powers,
                 stack>>
  /\ done' = NoRun

\* ====================================================== sweep.py: SweepApp
\* IVsweep keeps its samples in the locals `voltages` and `currents`; the model
\* holds them in the variables of the same names (powers stays empty).  No
\* handler of sweep.py pumps events, so nothing runs between its steps.

\* The radio buttons and the voltage compliance field of sweep.py (the sense
\* and terminal commands are logged without their ON/OFF, REAR/FRONT value).
SweepExtras == [voltage_mode : BOOLEAN, max_voltage : CompTexts]

Sweep_setupIV_cmds(cfg, x) ==
  <<Cmd(IF x.voltage_mode THEN "SOUR:FUNC VOLT" ELSE "SOUR:FUNC CURR", 0),
    Cmd(IF x.voltage_mode THEN "SENS:FUNC CURR" ELSE "SENS:FUNC VOLT", 0),
    Cmd("SYST:RSEN", 0), Cmd("ROUT:TERM", 0)>>
  \o (IF cfg.max_current # "" THEN <<Cmd("SENS:CURR:PROT", 0)>> ELSE <<>>)
  \o (IF x.max_voltage # "" THEN <<Cmd("SENS:VOLT:PROT", 0)>> ELSE <<>>)
  \o <<Cmd("OUTP ON", 0)>>

\* start_sweep up to the first iteration of the loop of IVsweep.  Nothing is
\* caught: an exception leaves the handler (kind "Unhandled").
Sweep_start_sweep(cfg, x, failAt) ==
  /\ app = "Sweep" /\ window = "open"
  /\ stack = <<>>
  /\ abort_sweep' = FALSE
  /\ IF ~cfg.valid
     THEN /\ failAt = 0
          /\ done' = Report("Unhandled", "input", TRUE, cfg, <<>>)
          /\ UNCHANGED <<voltages, currents, stack, output>>
     ELSE LET log == Written(Sweep_setupIV_cmds(cfg, x), failAt) IN
          /\ failAt \in FailChoices(Sweep_setupIV_cmds(cfg, x))
          /\ output' = OutputAfter(output, log)
          /\ IF failAt # 0 \/ cfg.points < 0
             THEN /\ done' = Report("Unhandled",
                                    IF failAt # 0 THEN "setup" ELSE "linspace",
                                    TRUE, cfg, log)
                  /\ UNCHANGED <<voltages, currents, stack>>
             ELSE /\ voltages' = <<>>
                  /\ currents' = <<>>
                  /\ stack' = Append(stack,
                       NewFrame(cfg, TRUE,
                                IF x.voltage_mode THEN "SOUR:VOLT" ELSE "SOUR:CURR",
                                log))
                  /\ done' = NoRun
  /\ UNCHANGED <<app, simulation_mode, keithley, powers, handles, window, pumped>>

Sweep_abort_sweep_func ==
  /\ app = "Sweep" /\ window = "open"
  /\ stack = <<>>
  /\ abort_sweep' = TRUE
  /\ UNCHANGED <<app, simulation_mode, keithley, voltages, currents, powers,
                 stack, output, handles, window, pumped>>
  /\ done' = NoRun

\* The head of the for loop of IVsweep.
Sweep_loop_check ==
  /\ app = "Sweep"
  /\ stack # <<>> /\ Top.pc = "check"
  /\ stack' = SetTop(
       IF Top.k > Len(Top.vals) THEN [Top EXCEPT !.pc = "end"]
       ELSE IF abort_sweep THEN [Top EXCEPT !.pc = "end", !.aborted = TRUE]
       ELSE [Top EXCEPT !.pc = "pump"])
  /\ UNCHANGED <<app, simulation_mode, keithley, abort_sweep, voltages,
                 currents, powers, output, handles, window, pumped>>
  /\ done' = NoRun

\* The parse of the response to ":MEAS?" (sweep.py 219-231): a response with
\* fewer than two fields, or a field float() rejects, reads as 0, 0.
Sweep_parse_response(r) ==
  IF r.k = "ok" THEN [v |-> Grid * r.v, i |-> r.i] ELSE [v |-> 0, i |-> 0]

\* One iteration of the loop body of IVsweep (sweep.py 212-237).
Sweep_take_point(r) ==
  /\ app = "Sweep"
  /\ stack # <<>> /\ Top.pc = "pump"
  /\ (keithley # "open") => (r.k = "wfail")
  /\ ~Top.delay_ok => r.k \in {"wfail", "qfail"}
  /\ LET value == Top.vals[Top.k]
         set == <<Cmd(Top.setcmd, value)>>
         next == [Top EXCEPT !.k = @ + 1, !.pc = "check", !.taken = @ + 1]
         m == Sweep_parse_response(r)
     IN IF r.k \in {"wfail", "qfail"}
        THEN \* the write, the wait (sweep.py 217) or the query raised:
             \* nothing catches it ("qfail": the setpoint was written)
             /\ stack' = Pop
             /\ done' = [EndReport("Unhandled", "point",
                            Top.log \o (IF r.k = "wfail" THEN <<>> ELSE set))
                         EXCEPT !.fail = @ + 1]
             /\ UNCHANGED <<voltages, currents>>
        ELSE /\ voltages' = Append(voltages, m.v)
             /\ currents' = Append(currents, 0 - m.i)
             /\ stack' = SetTop([next EXCEPT
                  !.notified = @ + 1, !.hw_pts = @ + 1,
                  !.bad = IF r.k = "ok" THEN @ ELSE @ + 1,
                  !.log = @ \o set \o <<Cmd("MEAS?", 0)>>])
             /\ done' = NoRun
  /\ UNCHANGED <<app, simulation_mode, keithley, abort_sweep, powers, output,
                 handles, window, pumped>>

\* The code after the loop of IVsweep (sweep.py 239-250).  saveFails: saving
\* the data (to_csv, 266) or the plot (savefig, 284) raised after the output
\* was switched off; like a failed ":OUTP OFF" write it is not caught.
Sweep_finish(failAt, saveFails) ==
  /\ app = "Sweep"
  /\ stack # <<>> /\ Top.pc = "end"
  /\ failAt \in FailChoices(<<Cmd("OUTP OFF", 0)>>)
  /\ saveFails => failAt = 0
  /\ LET shut == Written(<<Cmd("OUTP OFF", 0)>>, failAt) IN
     /\ output' = OutputAfter(output, shut)
     /\ done' = [EndReport(IF failAt = 0 /\ ~saveFails THEN "Returned"
                           ELSE "Unhandled",
                           "end", Top.log \o shut)
                 EXCEPT !.shut_tried = 1, !.shut_failed = failAt]
  /\ stack' = Pop
  /\ UNCHANGED <<app, simulation_mode, keithley, abort_sweep, voltages,
                 currents, powers, handles, window, pumped>>

\* initialize_keithley of sweep.py (143-155); oc and closeFails as in MPPT.py
\* (the rebinding is at 151, there is no "*IDN?").
Sweep_initialize_keithley(oc, closeFails) ==
  /\ app = "Sweep" /\ window = "open"
  /\ stack = <<>>
  /\ oc \in {"ok", "open", "rst"}
  /\ IF oc = "open"
     THEN /\ ~closeFails
          /\ UNCHANGED <<keithley, handles, output>>
     ELSE /\ closeFails => keithley = "open"
          /\ (keithley = "open" /\ ~closeFails) \/ handles < MaxHandles
          /\ keithley' = "open"
          /\ handles' = IF keithley = "open" /\ ~closeFails THEN handles
                         ELSE handles + 1
          /\ output' = IF oc = "rst" THEN output ELSE FALSE
  /\ UNCHANGED <<app, simulation_mode, abort_sweep, voltages, currents, powers,
                 stack, window, pumped>>
  /\ done' = NoRun

\* closeEvent of sweep.py (287-290).  closeFails: close() raised; nothing
\* catches it, the session stays open and event.accept() is not reached: the
\* window closes if the event was created accepted (`accepted`, as Qt creates
\* it) and stays open otherwise.
Sweep_closeEvent(closeFails, accepted) ==
  /\ app = "Sweep" /\ window = "open"
  /\ stack = <<>>
  /\ IF closeFails
     THEN /\ keithley = "open"
          /\ window' = IF accepted THEN "closed" ELSE "open"
          /\ UNCHANGED <<keithley, handles>>
     ELSE /\ accepted
          /\ window' = "closed"
          /\ IF keithley = "None"
             THEN UNCHANGED <<keithley, handles>>
             ELSE /\ keithley' = "closed"
                  /\ handles' = IF keithley = "open" THEN handles - 1 ELSE handles
  /\ UNCHANGED <<app, simulation_mode, abort_sweep, voltages, currents, powers,
                 stack, output, pumped>>
  /\ done' = NoRun

\* ============================================================ specification
Init ==
  /\ app \in {"MPPT", "Sweep"}
  /\ simulation_mode \in (IF app = "MPPT" THEN BOOLEAN ELSE {FALSE})
  /\ keithley = "None"
  /\ abort_sweep = FALSE
  /\ voltages = <<>>
  /\ currents = <<>>
  /\ powers = <<>>
  /\ stack = <<>>
  /\ output = FALSE
  /\ handles = 0
  /\ window = "open"
  /\ pumped = 0
  /\ done = NoRun

Next ==
  \/ \E cfg \in Configs, f \in 0 .. 7 : start_sweep(cfg, f)
  \/ abort_sweep_func
  \/ loop_check
  \/ \E r \in Responses, raw \in SimRaw \cup {0} : take_point(r, raw)
  \/ \E f \in 0 .. 2 : finish(f)
  \/ \E b \in BOOLEAN : toggle_simulation_mode(b)
  \/ \E oc \in InitOutcomes, b \in BOOLEAN : initialize_keithley(oc, b)
  \/ \E csv \in Csvs : load_data_from_csv(csv)
  \/ \E f \in 0 .. 2 : closeEvent(f)
  \/ \E oc \in TestOutcomes : test_gpib_connection(oc)
  \/ \E cfg \in Configs, x \in SweepExtras, f \in 0 .. 7 : Sweep_start_sweep(cfg, x, f)
  \/ Sweep_abort_sweep_func
  \/ Sweep_loop_check
  \/ \E r \in Responses : Sweep_take_point(r)
  \/ \E f \in 0 .. 1, b \in BOOLEAN : Sweep_finish(f, b)
  \/ \E oc \in InitOutcomes, b \in BOOLEAN : Sweep_initialize_keithley(oc, b)
  \/ \E b, acc \in BOOLEAN : Sweep_closeEvent(b, acc)

Spec == Init /\ [][Next]_vars

\* ------------------------------------------- sweeps over a wider input range
\* Single sweeps of up to MaxStackPoints points, with start above, below and
\* equal to stop and spans the point count does not divide: MPPT.py in
\* simulation mode, sweep.py on an initialized instrument.
WideStarts == {-2, 0, 4}
WideStops == {-3, 0, 4, 5}

WideConfigs ==
  [start : WideStarts, stop : WideStops, points : 1 .. MaxStackPoints,
   valid : {TRUE}, max_current : {"0.5"}, delay_ok : {TRUE}]

WideInit == Init /\ (app = "MPPT" => simulation_mode)

WideNext ==
  \/ \E cfg \in WideConfigs : start_sweep(cfg, 0)
  \/ loop_check
  \/ \E r \in Responses, raw \in SimRaw : take_point(r, raw)
  \/ finish(0)
  \/ \E b \in BOOLEAN : Sweep_initialize_keithley("ok", b)
  \/ \E cfg \in WideConfigs, x \in SweepExtras : Sweep_start_sweep(cfg, x, 0)
  \/ Sweep_loop_check
  \/ \E r \in Responses : Sweep_take_point(r)
  \/ Sweep_finish(0, FALSE)

WideSpec == WideInit /\ [][WideNext]_vars

\* ----------------------------------------------- MPPT.py with its scheduling
\* MPPT.py alone.  A handler that has started runs on: the loop head, the loop
\* body after processEvents() has returned and the code after the loop are
\* steps of the one thread and are taken whenever they are the next statement.
\* The handlers run by processEvents() are those of pending events, of which
\* there are at most MaxPumpEvents; a dialog shown by a step is dismissed.
LiveInit == Init /\ app = "MPPT"

\* The text fields with the current compliance field filled in.
LiveConfigs == {c \in Configs : c.valid => c.max_current = "0.5"}

LiveNext ==
  \/ \E cfg \in LiveConfigs, f \in 0 .. 7 : start_sweep(cfg, f)
  \/ abort_sweep_func
  \/ loop_check
  \/ \E r \in Responses, raw \in SimRaw \cup {0} : take_point(r, raw)
  \/ \E f \in 0 .. 2 : finish(f)
  \/ \E b \in BOOLEAN : toggle_simulation_mode(b)
  \/ \E oc \in InitOutcomes, b \in BOOLEAN : initialize_keithley(oc, b)
  \/ \E csv \in Csvs : load_data_from_csv(csv)
  \/ \E f \in 0 .. 2 : closeEvent(f)
  \/ \E oc \in TestOutcomes : test_gpib_connection(oc)

LiveSpec ==
  /\ LiveInit /\ [][LiveNext]_vars
  /\ WF_vars(loop_check)
  /\ WF_vars(\E r \in Responses, raw \in SimRaw \cup {0} : take_point(r, raw))
  /\ WF_vars(\E f \in 0 .. 2 : finish(f))

\* ================================================================== claims
\* The command logs of the request that just ended and of the active sweeps.
Logs == {done.log} \cup {stack[n].log : n \in 1 .. Len(stack)}

\* Every b in the log has an a before it.
Preceded(log, a, b) ==
  \A n \in 1 .. Len(log) :
    log[n].c = b => \E m \in 1 .. n - 1 : log[m].c = a

EndsWith(log, suffix) ==
  /\ Len(log) >= Len(suffix)
  /\ SubSeq(log, Len(log) - Len(suffix) + 1, Len(log)) = suffix

StartRequest == \E cfg \in Configs, f \in 0 .. 7 : start_sweep(cfg, f)

\* C1: a sweep of n points that was not interrupted by any other handler, in
\* which exactly one read response could not be parsed, every other point
\* succeeded and no cancellation was requested, ends normally with exactly
\* n - 1 samples (the unparseable point appended nothing).
C1_ParseFailureSkipsPoint ==
  (/\ done.kind = "Returned" /\ done.hw /\ done.depth = 1 /\ done.ev = 0
   /\ done.points >= 2
   /\ done.bad = 1 /\ done.fail = 0 /\ done.cancel_at = 0)
  => (/\ done.taken = done.points - 1
      /\ done.len = done.points - 1
      /\ done.k = done.points + 1
      /\ ~done.aborted)

\* C2: a start request that arrives while a sweep is active changes nothing of
\* the running sweep: the sweeps on the stack (no sweep of its own, no command
\* of its own), the stored samples, the abort flag and the instrument output
\* are all as before.
C2_BusyStartFailsFast ==
  [][(stack # <<>> /\ StartRequest)
       => (/\ stack' = stack
           /\ voltages' = voltages /\ currents' = currents /\ powers' = powers
           /\ abort_sweep' = abort_sweep
           /\ output' = output)]_vars

\* C3: every start request of MPPT.py in hardware mode that got past the
\* configuration (setupIV returned True) ends with the shutdown sequence
\* (":SOUR:VOLT 0", ":OUTP OFF") as its last commands, written exactly once.
C3_ShutdownOnEveryExit ==
  (/\ app = "MPPT" /\ done.hw
   /\ done.stage \in {"linspace", "point", "end"})
  => (/\ EndsWith(done.log, shutdown_cmds)
      /\ Count(done.log, "OUTP OFF") = 1)

\* C4: a sweep whose first abort request arrived before it had taken any point
\* (its first setpoint was still pending) takes no point, and ends with the
\* "Sweep Aborted" dialog, an empty result and, in hardware mode, the shutdown.
C4_CancelBeforeFirstPoint ==
  /\ \A n \in 1 .. Len(stack) :
       stack[n].cancel_at = 1 => (stack[n].taken = 0 /\ stack[n].k = 1)
  /\ (done.stage = "end" /\ done.cancel_at = 1)
     => (/\ done.taken = 0 /\ done.len = 0 /\ done.aborted
         /\ done.hw => EndsWith(done.log, shutdown_cmds))

\* C5: a sweep that found the abort flag set at a boundary takes no further
\* point, and after an abort request that arrived while setpoint c was pending
\* at most that one point is taken: the loop never goes beyond setpoint c + 1.
C5_CancelAtNextBoundary ==
  /\ \A n \in 1 .. Len(stack) :
       /\ stack[n].aborted => stack[n].pc = "end"
       /\ stack[n].cancel_at > 0 =>
            (/\ stack[n].k <= stack[n].cancel_at + 1
             /\ (stack[n].k = stack[n].cancel_at + 1 => stack[n].pc # "pump"))
  /\ done.cancel_at > 0 => done.k <= done.cancel_at + 1

\* C6: a start request whose setupIV failed does not proceed: it wrote no
\* setpoint, queried no measurement, appended no sample, entered no loop and
\* ended with the configuration error reported ("Setup Error" in MPPT.py, the
\* exception itself in sweep.py); and every sweep that did reach its loop in
\* hardware mode has the complete configuration, output enabled, behind it.
C6_SetupFailureStopsRun ==
  /\ done.stage = "setup"
     => (/\ done.kind = (IF app = "MPPT" THEN "SetupError" ELSE "Unhandled")
         /\ ~Has(done.log, "SOUR:VOLT") /\ ~Has(done.log, "SOUR:CURR")
         /\ ~Has(done.log, "READ?") /\ ~Has(done.log, "MEAS?")
         /\ done.taken = 0 /\ done.k = 0
         /\ Len(stack) = done.depth - 1)
  /\ \A n \in 1 .. Len(stack) :
       stack[n].hw => (/\ Has(stack[n].log, "OUTP ON")
                       /\ Has(stack[n].log, "SOUR:FUNC VOLT")
                          \/ Has(stack[n].log, "SOUR:FUNC CURR"))

\* A Setup Error reported after the output had been enabled.
C6_Witness ==
  /\ done.stage = "setup" /\ done.kind = "SetupError"
  /\ Has(done.log, "OUTP ON")

\* C7: in every command log the output-enable command ":OUTP ON" comes after a
\* current compliance command ":SENS:CURR:PROT" of the same request.
C7_ComplianceBeforeOutput ==
  \A log \in Logs : Preceded(log, "SENS:CURR:PROT", "OUTP ON")

\* C8: a start request with a point count below 2 is rejected with an error
\* before anything else happens: it issues no instrument command, takes no
\* point and never becomes an active sweep.
C8_InvalidConfigRejected ==
  /\ \A n \in 1 .. Len(stack) : stack[n].points >= 2
  /\ (done.kind \notin {"none", "NotInitialized"} /\ done.points < 2)
     => (/\ done.kind \in {"InputError", "Unhandled"}
         /\ done.log = <<>> /\ done.taken = 0)

\* C9 (MPPT.py): the reports at the end of a start request tell the outcomes
\* apart.  A run that collected no sample ends with the "No valid data points"
\* warning, no MPP and no error dialog, and the warning is shown for no other
\* run; the "Sweep Aborted" dialog is shown exactly when the loop stopped
\* before the end of the setpoint sequence, so a cancelled run never reports
\* like one that reached its last setpoint; a request that ended before the
\* loop shows an error dialog and neither of the two.
C9_OutcomesDistinguishable ==
  (app = "MPPT" /\ done.kind # "none")
  => (/\ done.nodata <=> (done.stage = "end" /\ done.taken = 0)
      /\ done.nodata => (done.kind = "Returned" /\ done.mpp = NoMpp)
      /\ done.aborted <=> (done.stage = "end" /\ done.k <= done.points)
      /\ done.stage # "end"
         => (/\ done.kind \in {"NotInitialized", "InputError", "SetupError"}
             /\ ~done.nodata /\ ~done.aborted))

\* C10 (MPPT.py): when voltage_sweep ends, after the last setpoint or after a
\* cancellation, an MPP is reported if and only if the result is non-empty.
C10_MppIffNonEmpty ==
  (app = "MPPT" /\ done.stage = "end")
  => (done.mpp # NoMpp <=> done.len > 0)

\* C11 (MPPT.py): the MPP reported for a non-empty result is the sample at the
\* smallest index whose power is the maximum of the power sequence; its
\* voltage and current are those stored at that same index.
C11_MppIsFirstMaximum ==
  (app = "MPPT" /\ done.stage = "end" /\ done.kind = "Returned"
   /\ powers # <<>>)
  => /\ done.mpp # NoMpp
     /\ \E i \in 1 .. Len(powers) :
          /\ \A j \in 1 .. Len(powers) : powers[j] <= powers[i]
          /\ \A j \in 1 .. (i - 1) : powers[j] < powers[i]
          /\ done.mpp[1] = [v |-> voltages[i], i |-> currents[i],
                            p |-> powers[i]]

\* A result of three samples in which the maximum power occurs twice, at
\* different voltages.
C11_Witness ==
  /\ app = "MPPT" /\ done.stage = "end" /\ done.mpp # NoMpp
  /\ Len(powers) = 3
  /\ \E i, j \in 1 .. 3 :
       /\ i < j /\ powers[i] = powers[j] /\ voltages[i] # voltages[j]
       /\ \A n \in 1 .. 3 : powers[n] <= powers[i]

Monotonic(vals, up) ==
  \A n \in 1 .. Len(vals) - 1 :
    IF up THEN vals[n] <= vals[n + 1] ELSE vals[n] >= vals[n + 1]

\* C12: the setpoint sequence of every sweep with point_count >= 2 has exactly
\* point_count entries, starts at start, ends at stop, and is non-decreasing
\* when stop >= start and non-increasing when stop <= start.
C12_SetpointSequence ==
  \A n \in 1 .. Len(stack) :
    LET f == stack[n] IN
    f.points >= 2
    => /\ Len(f.vals) = f.points
       /\ f.vals[1] = Grid * f.start
       /\ f.vals[f.points] = Grid * f.stop
       /\ f.stop >= f.start => Monotonic(f.vals, TRUE)
       /\ f.stop <= f.start => Monotonic(f.vals, FALSE)

\* A descending sweep of three points whose span two does not divide: its
\* middle setpoint is not a whole number of the unit.
C12_Witness ==
  /\ stack # <<>> /\ Top.points = 3
  /\ Top.stop < Top.start /\ (Top.start - Top.stop) % 2 = 1
  /\ Top.vals[2] % Grid # 0

\* C13 (MPPT.py): in every state the stored voltage, current and power
\* sequences have the same length, and each power is the product of the
\* voltage and the current at its index.
C13_PowerIsProduct ==
  app = "MPPT"
  => /\ Len(currents) = Len(voltages)
     /\ Len(powers) = Len(voltages)
     /\ \A n \in 1 .. Len(powers) : powers[n] = voltages[n] * currents[n]

\* C14: the result of a run is made of its points that succeeded, and of
\* nothing else: when the loop has ended, the result holds one sample for each
\* setpoint passed that neither failed nor gave an unparseable response, and
\* never more than point_count.
C14_ResultIsSucceededPoints ==
  done.stage = "end"
  => /\ done.len = (done.k - 1) - done.bad - done.fail
     /\ done.len <= done.points

\* C15: in a sweep that no other handler interrupted, the number of live plot
\* updates made for samples equals the number of samples appended.
C15_NotifiedPerSample ==
  (done.stage = "end" /\ done.depth = 1 /\ done.ev = 0)
  => done.notified = done.taken

\* C16 (MPPT.py): while a sweep is active, every step leaves the stored
\* sequences as they were or longer by appended samples: the value before the
\* step is a prefix of the value after it.
C16_ResultAppendOnly ==
  [][(app = "MPPT" /\ stack # <<>> /\ stack' # <<>>)
       => (/\ IsPrefix(voltages, voltages')
           /\ IsPrefix(currents, currents')
           /\ IsPrefix(powers, powers'))]_vars

\* C17: a sweep, not interrupted by another handler, in which a setpoint write
\* or a read query failed still runs to the end of its loop and returns
\* normally after the shutdown, with no sample for the failed points.
C17_PointFailureIsolated ==
  (done.kind # "none" /\ done.fail > 0 /\ done.depth = 1 /\ done.ev = 0)
  => /\ done.stage = "end" /\ done.kind = "Returned"
     /\ done.taken = (done.k - 1) - done.fail - done.bad
     /\ done.len = done.taken

\* C18 (MPPT.py): after initialize_keithley has reported a failure the session
\* is not connected (self.keithley is None), so that a start request in
\* hardware mode is refused; after a success "*RST" was sent before "*IDN?".
C18_FailedConnectNotConnected ==
  /\ done.connect = "failed" => keithley = "None"
  /\ done.connect = "ok" => done.log = <<Cmd("*RST", 0), Cmd("*IDN?", 0)>>

\* C19 (MPPT.py): a sweep started in simulation mode sends no command to the
\* instrument and no setpoint it passes goes to the instrument: with a delay
\* that time.sleep accepts every setpoint yields a simulated sample, and none
\* fails on the instrument link or gives an unparseable response.
C19_SimulationIssuesNoCommand ==
  /\ \A n \in 1 .. Len(stack) :
       ~stack[n].hw
       => /\ stack[n].log = <<>>
          /\ stack[n].hw_pts = 0 /\ stack[n].bad = 0
          /\ stack[n].delay_ok
             => (stack[n].fail = 0 /\ stack[n].taken = stack[n].k - 1)
  /\ (done.stage \in {"linspace", "end"} /\ ~done.hw)
     => (done.log = <<>> /\ done.bad = 0)

\* C20 (MPPT.py): in a simulated sweep that no other handler interrupted, no
\* stored current is negative, and the current stored for a setpoint at or
\* above 0.8 x stop is exactly 0.
C20_SimulatedCurrent ==
  (app = "MPPT" /\ simulation_mode /\ Len(stack) = 1 /\ pumped = 0)
  => /\ Len(currents) = Top.taken
     /\ \A n \in 1 .. Len(currents) :
          /\ currents[n] >= 0
          /\ 10 * Top.vals[n] >= 8 * Grid * Top.stop => currents[n] = 0

\* A sweep towards a negative stop voltage with a sample above 0.8 x stop and
\* one below it whose raw current was negative.
C20_Witness ==
  /\ app = "MPPT" /\ simulation_mode /\ Len(stack) = 1 /\ pumped = 0
  /\ Top.stop < 0 /\ Len(currents) = 3
  /\ \E n, m \in 1 .. 3 :
       /\ 10 * Top.vals[n] >= 8 * Grid * Top.stop
       /\ 10 * Top.vals[m] < 8 * Grid * Top.stop /\ currents[m] = 0

\* C21: every step that takes a point on the instrument from a response
\* "v,i" that parses appends exactly one sample: the voltage v, the current
\* -i and, in MPPT.py (sweep.py stores no power), the power v * (-i).
C21_CurrentSignInverted ==
  [][\A r \in Responses :
       r.k = "ok"
       => /\ (~simulation_mode /\ take_point(r, 0))
             => (/\ voltages' = Append(voltages, Grid * r.v)
                 /\ currents' = Append(currents, 0 - r.i)
                 /\ powers' = Append(powers, Grid * r.v * (0 - r.i)))
          /\ Sweep_take_point(r)
             => (/\ voltages' = Append(voltages, Grid * r.v)
                 /\ currents' = Append(currents, 0 - r.i))]_vars

\* A hardware sweep of MPPT.py that stored the response "4,-2" as the sample
\* (4, 2) with power 8.
C21_Witness ==
  /\ app = "MPPT" /\ ~simulation_mode /\ stack # <<>> /\ Top.hw
  /\ Top.taken = 1 /\ Top.pc = "check"
  /\ EndsWith(Top.log, <<Cmd("READ?", 0)>>)
  /\ voltages = <<Grid * 4>> /\ currents = <<2>> /\ powers = <<Grid * 8>>

\* C22: a hardware sweep, not interrupted by another handler, whose zeroing
\* write or output-disable write failed after the loop still returns normally
\* (nothing leaves the handler), has attempted the output-disable write even
\* when the zeroing write failed, and has reported its result: the MPP for a
\* non-empty result (MPPT.py), the no-data warning for an empty one.
C22_ShutdownBestEffort ==
  (/\ done.stage = "end" /\ done.hw /\ done.depth = 1 /\ done.ev = 0
   /\ done.shut_failed > 0)
  => /\ done.kind = "Returned"
     /\ done.shut_tried = (IF app = "MPPT" THEN Len(shutdown_cmds) ELSE 1)
     /\ app = "MPPT" => (done.mpp # NoMpp <=> done.len > 0)
     /\ app = "MPPT" => (done.nodata <=> done.len = 0)

Sweep_StartRequest ==
  \E cfg \in Configs, x \in SweepExtras, f \in 0 .. 7 : Sweep_start_sweep(cfg, x, f)

\* C23: a start request made in hardware mode while self.keithley is None has
\* no effect: it sends no command, takes no point, starts no sweep, and leaves
\* the abort flag, the stored samples and the instrument output as they were.
C23_UnconnectedStartRefused ==
  [][(keithley = "None" /\ ~simulation_mode
      /\ (StartRequest \/ Sweep_StartRequest))
       => (/\ done'.log = <<>> /\ done'.taken = 0
           /\ stack' = stack
           /\ abort_sweep' = abort_sweep
           /\ voltages' = voltages /\ currents' = currents /\ powers' = powers
           /\ output' = output)]_vars

\* C24 (MPPT.py): every sweep that has started ends: a call stack of depth n
\* is followed by one below n.  On the way the loop never goes beyond the
\* setpoint after the last one, so a sweep of point_count setpoints runs its
\* body at most point_count times whether points fail or an abort is
\* requested, and a sweep leaves the stack only from the code after its loop.
C24_SweepReturnsToIdle ==
  /\ [](\A n \in 1 .. Len(stack) :
          /\ stack[n].k <= stack[n].points + 1
          /\ stack[n].taken + stack[n].bad + stack[n].fail = stack[n].k - 1
          /\ stack[n].pc = "pump" => stack[n].k <= stack[n].points)
  /\ [][Len(stack') < Len(stack)
         => (Top.pc = "end" /\ stack' = Pop /\ done'.stage = "end")]_vars
  /\ \A n \in 1 .. MaxDepth : (Len(stack) = n) ~> (Len(stack) < n)

\* A sweep of two points that lost a point on the instrument link, was then
\* cancelled, and has returned to idle.
C24_Witness ==
  /\ app = "MPPT" /\ stack = <<>> /\ done.stage = "end" /\ done.points = 2
  /\ done.fail = 1 /\ done.aborted /\ done.k = 2

\* C25: every step that starts a sweep leaves the abort flag cleared, whatever
\* it was before (set while idle, or left set by a cancelled sweep); and
\* while a sweep that is still in its loop has not yet found the flag set, no
\* step clears a flag that is set.
C25_FlagClearedOnlyAtStart ==
  [][/\ Len(stack') > Len(stack) => ~abort_sweep'
     /\ (abort_sweep /\ \E n \in 1 .. Len(stack) :
                          ~stack[n].aborted /\ stack[n].pc # "end")
        => abort_sweep']_vars

\* C26 (MPPT.py): all points of a sweep come from the source its start
\* configured.  In a sweep started in hardware mode every setpoint passed
\* took the instrument branch of the loop body; in a sweep started in
\* simulation mode none did and nothing was read; and the code after the loop
\* attempts the shutdown writes exactly when the sweep was started in
\* hardware mode.
C26_SourceFixedForRun ==
  app = "MPPT"
  => /\ \A n \in 1 .. Len(stack) :
          LET f == stack[n] IN
          IF f.hw THEN f.hw_pts = f.k - 1
          ELSE f.hw_pts = 0 /\ Count(f.log, "READ?") = 0
     /\ done.stage = "end" => (done.shut_tried > 0 <=> done.hw)

\* C27: in every state at most one session is open, every open session is
\* the one self.keithley refers to (a session the program has dropped is
\* closed), and in simulation mode self.keithley is not an open session.
C27_AtMostOneHandle ==
  /\ handles <= 1
  /\ handles = (IF keithley = "open" THEN 1 ELSE 0)
  /\ simulation_mode => keithley # "open"

====
